---- MODULE Spec2Model ----
(***************************************************************************)
(* Model of examples/nbi_client_py/main.py: the DynamicNBI client (schema  *)
(* registry, request builders, the unary call wrapper), the snapshot       *)
(* printer and the driver main(), run against the NBI server.  The server  *)
(* is an external collaborator; its behaviour is modelled from the         *)
(* specification (sections 3, 4.2, 7 and 8).                               *)
(*                                                                         *)
(* Encoding.  An optional value (Python None or a value) is a sequence of  *)
(* length 0 or 1.  A protobuf message is a record holding exactly the      *)
(* fields that are set.  Coordinates are whole metres.                     *)
(***************************************************************************)
EXTENDS Integers, Sequences, FiniteSets, TLC

VARIABLES
    args,      \* the parsed command line (main, lines 156-167)
    pc,        \* where the caller stands: "start", "run", "exited"
    client,    \* Optional DynamicNBI instance
    todo,      \* the statements of the caller still to run
    call,      \* Optional remote call in flight on the channel
    sent,      \* history: every request put on the channel, in order
    ncalls,    \* history: number of client operations invoked
    hist,      \* history: every step that completed, with its outcome
    server,    \* the scenario held by the remote service
    snapshot,  \* Optional value of main's variable snapshot
    out,       \* the lines printed on standard output
    exit_code  \* Optional process exit status

vars == <<args, pc, client, todo, call, sent, ncalls, hist, server,
          snapshot, out, exit_code>>

None == << >>
Some(v) == <<v>>

----------------------------------------------------------------------------
(* Names looked up in the descriptor bundle by DynamicNBI.__init__.        *)

MessageNames ==
    << "aalyria.spacetime.api.common.PlatformDefinition",
       "aalyria.spacetime.api.nbi.v1alpha.resources.NetworkNode",
       "aalyria.spacetime.api.nbi.v1alpha.resources.NetworkInterface",
       "aalyria.spacetime.api.nbi.v1alpha.resources.BidirectionalLink",
       "aalyria.spacetime.api.common.TransceiverModelId",
       "aalyria.spacetime.api.nbi.v1alpha.ClearScenarioRequest",
       "aalyria.spacetime.api.nbi.v1alpha.GetScenarioRequest",
       "aalyria.spacetime.api.nbi.v1alpha.ScenarioSnapshot" >>

MotionSourceEnum == "aalyria.spacetime.api.common.PlatformDefinition.MotionSource"

UnknownSource == "UNKNOWN_SOURCE"

RequiredNames ==
    {MessageNames[i] : i \in DOMAIN MessageNames} \cup {MotionSourceEnum, UnknownSource}

ClearScenarioMethod == "/aalyria.spacetime.api.nbi.v1alpha.ScenarioService/ClearScenario"
CreatePlatformMethod == "/aalyria.spacetime.api.nbi.v1alpha.PlatformService/CreatePlatform"
CreateNodeMethod == "/aalyria.spacetime.api.nbi.v1alpha.NetworkNodeService/CreateNode"
CreateLinkMethod == "/aalyria.spacetime.api.nbi.v1alpha.NetworkLinkService/CreateLink"
GetScenarioMethod == "/aalyria.spacetime.api.nbi.v1alpha.ScenarioService/GetScenario"

----------------------------------------------------------------------------
(* Protobuf messages.                                                      *)

\* A message with no field set (what a prototype call such as
\* self.GetScenarioRequest() returns).
EmptyMessage == [f \in {} |-> 0]

HasField(m, f) == f \in DOMAIN m

\* Reading a sub-message field: the set value, or the default (empty)
\* instance when the field is not set.  It is never None.
SubMessage(m, f) == IF HasField(m, f) THEN m[f] ELSE EmptyMessage

\* Reading a numeric field: the set value, or the default 0.
Number(m, f) == IF HasField(m, f) THEN m[f] ELSE 0

----------------------------------------------------------------------------
(* DynamicNBI.                                                             *)

\* A faulty variant of _msg: hands out a prototype handle without looking the name
\* up in the pool.
MsgUnchecked(pool, name) == Some(name)

\* _msg: the prototype of a named message type; FindMessageTypeByName raises
\* KeyError (here: None) when the pool does not hold the name.
_msg(pool, name) == IF name \in pool THEN Some(name) ELSE None

\* The enum lookup of __init__: FindEnumTypeByName raises KeyError for an
\* absent enum, values_by_name[...] raises KeyError for an absent value.
MotionUnknown(pool) ==
    IF MotionSourceEnum \in pool /\ UnknownSource \in pool
    THEN Some(UnknownSource) ELSE None

\* __init__: Optional client; None when an exception leaves the constructor.
\* descriptor.readable = FALSE is a descriptor path that cannot be read.
__init__(channel, descriptor, timeout) ==
    IF ~descriptor.readable THEN None
    ELSE LET pool == descriptor.names
             protos == [i \in DOMAIN MessageNames |-> _msg(pool, MessageNames[i])]
             motion == MotionUnknown(pool)
         IN  IF (\E i \in DOMAIN protos : protos[i] = None) \/ motion = None
             THEN None
             ELSE Some([channel |-> channel,
                        timeout |-> timeout,
                        pool |-> pool,
                        protos |-> {protos[i][1] : i \in DOMAIN protos},
                        motion_unknown |-> motion[1]])

\* The exception that leaves the constructor, when one does.
InitError(descriptor) ==
    IF ~descriptor.readable THEN "OSError" ELSE "KeyError"

\* A faulty variant of _unary: the request is put on the channel twice.
UnaryTwice(self, method, request, response_cls) ==
    LET w == [method |-> method, request |-> request,
              timeout |-> Some(self.timeout), response_cls |-> response_cls]
    IN  [self |-> self, sends |-> <<w, w>>]

\* A faulty variant of _unary: the call is made with no deadline.
UnaryNoDeadline(self, method, request, response_cls) ==
    [self |-> self,
     sends |-> << [method |-> method, request |-> request,
                   timeout |-> None, response_cls |-> response_cls] >>]

\* A faulty variant of _unary: the client adapts its timeout from call to call.
UnaryBackoff(self, method, request, response_cls) ==
    [self |-> [self EXCEPT !.timeout = self.timeout + self.timeout],
     sends |-> << [method |-> method, request |-> request,
                   timeout |-> Some(self.timeout), response_cls |-> response_cls] >>]

\* _unary: one multi-callable is made and called once with the client's
\* timeout.  It yields the client as the call leaves it and the requests it
\* puts on the channel.
_unary(self, method, request, response_cls) ==
    [self |-> self,
     sends |-> << [method |-> method, request |-> request,
                   timeout |-> Some(self.timeout), response_cls |-> response_cls] >>]

clear_scenario(self) ==
    _unary(self, ClearScenarioMethod, EmptyMessage, "google.protobuf.Empty")

PlatformRequest(self, name, typ, coords) ==
    [name |-> name,
     type |-> typ,
     motion_source |-> self.motion_unknown,
     coordinates |-> [ecef_fixed |-> [point |-> [x_m |-> coords[1],
                                                  y_m |-> coords[2],
                                                  z_m |-> coords[3]]]]]

\* A faulty variant of create_platform: x and y are exchanged.
create_platform_swapped(self, name, typ, coords) ==
    _unary(self, CreatePlatformMethod,
          PlatformRequest(self, name, typ, <<coords[2], coords[1], coords[3]>>),
          MessageNames[1])

\* coords is the Python tuple (coords[0], coords[1], coords[2]), here 1-based.
create_platform(self, name, typ, coords) ==
    _unary(self, CreatePlatformMethod,
          PlatformRequest(self, name, typ, coords),
          MessageNames[1])

create_node(self, node_id, platform_id, iface_id, transceiver_id) ==
    LET iface == [interface_id |-> iface_id,
                  wireless |-> [platform |-> platform_id,
                                transceiver_model_id |->
                                    [transceiver_model_id |-> transceiver_id]]]
        node == [node_id |-> node_id,
                 type |-> "ROUTER",
                 node_interface |-> <<iface>>]
    IN  _unary(self, CreateNodeMethod, node, MessageNames[2])

LinkRequest(a_node, a_iface, b_node, b_iface) ==
    [a_network_node_id |-> a_node,
     a_tx_interface_id |-> a_iface,
     a_rx_interface_id |-> a_iface,
     b_network_node_id |-> b_node,
     b_tx_interface_id |-> b_iface,
     b_rx_interface_id |-> b_iface]

\* A faulty variant of create_link: the a side is filled from the b arguments.
create_link_copied(self, a_node, a_iface, b_node, b_iface) ==
    _unary(self, CreateLinkMethod,
          LinkRequest(b_node, b_iface, b_node, b_iface), MessageNames[4])

create_link(self, a_node, a_iface, b_node, b_iface) ==
    _unary(self, CreateLinkMethod,
          LinkRequest(a_node, a_iface, b_node, b_iface), MessageNames[4])

get_scenario(self) ==
    _unary(self, GetScenarioMethod, EmptyMessage, MessageNames[8])

\* One statement "client.<op>(<args>)" of a caller.
Invoke(self, stmt) ==
    CASE stmt.op = "clear_scenario" -> clear_scenario(self)
      [] stmt.op = "create_platform" ->
            create_platform(self, stmt.args[1], stmt.args[2], stmt.args[3])
      [] stmt.op = "create_node" ->
            create_node(self, stmt.args[1], stmt.args[2], stmt.args[3], stmt.args[4])
      [] stmt.op = "create_link" ->
            create_link(self, stmt.args[1], stmt.args[2], stmt.args[3], stmt.args[4])
      [] stmt.op = "get_scenario" -> get_scenario(self)

----------------------------------------------------------------------------
(* The NBI server: the scenario it holds and how it answers a request.     *)

EmptyScenario == [platforms |-> << >>, nodes |-> << >>, links |-> << >>]

\* The (node, interface) pairs that exist in a list of nodes.
Interfaces(nodes) ==
    UNION { {<<nodes[i].node_id, nodes[i].node_interface[j].interface_id>> :
                j \in DOMAIN nodes[i].node_interface} : i \in DOMAIN nodes }

\* The (node, interface) pairs a link refers to.
Endpoints(link) ==
    {<<link.a_network_node_id, link.a_tx_interface_id>>,
     <<link.a_network_node_id, link.a_rx_interface_id>>,
     <<link.b_network_node_id, link.b_tx_interface_id>>,
     <<link.b_network_node_id, link.b_rx_interface_id>>}

\* Requests the service rejects with a status: a duplicate identifier, a
\* link to an interface that does not exist on its node.
MustReject(s, w) ==
    CASE w.method = CreatePlatformMethod ->
            \E i \in DOMAIN s.platforms : s.platforms[i].name = w.request.name
      [] w.method = CreateNodeMethod ->
            \E i \in DOMAIN s.nodes : s.nodes[i].node_id = w.request.node_id
      [] w.method = CreateLinkMethod ->
            ~(Endpoints(w.request) \subseteq Interfaces(s.nodes))
      [] OTHER -> FALSE

\* The scenario after an accepted request.
Accepted(s, w) ==
    CASE w.method = ClearScenarioMethod -> EmptyScenario
      [] w.method = CreatePlatformMethod ->
            [s EXCEPT !.platforms = Append(@, w.request)]
      [] w.method = CreateNodeMethod ->
            [s EXCEPT !.nodes = Append(@, w.request)]
      [] w.method = CreateLinkMethod ->
            [s EXCEPT !.links = Append(@, w.request)]
      [] OTHER -> s

\* The response to an accepted request: the created entity, the snapshot,
\* or Empty.
Response(s, w) ==
    CASE w.method = ClearScenarioMethod -> EmptyMessage
      [] w.method = GetScenarioMethod ->
            [platforms |-> s.platforms, nodes |-> s.nodes, links |-> s.links]
      [] OTHER -> w.request

----------------------------------------------------------------------------
(* The snapshot printer.                                                   *)

\* getattr(o, name, None) on an Optional message: None has no attribute, a
\* message yields the field's sub-message (the default instance when unset).
getattr(o, name) == IF o = None THEN None ELSE Some(SubMessage(o[1], name))

\* bool(o) as "if pt:" evaluates it: None is false; a message object
\* defines neither __bool__ nor __len__, so it is true whatever it holds.
Truthy(o) == o # None

\* f"{v:.1f}" of a whole number of metres: integer part and one decimal.
Fmt1(v) == <<v, 0>>

PlatformLine(p) ==
    LET pt == getattr(getattr(getattr(Some(p), "coordinates"), "ecef_fixed"), "point")
        coord == IF Truthy(pt)
                 THEN [text |-> "(x, y, z) m",
                       x |-> Fmt1(Number(pt[1], "x_m")),
                       y |-> Fmt1(Number(pt[1], "y_m")),
                       z |-> Fmt1(Number(pt[1], "z_m"))]
                 ELSE [text |-> "n/a"]
    IN  [line |-> "platform", name |-> p.name, type |-> p.type, coord |-> coord]

print_platforms(platforms) ==
    << [line |-> "Platforms:"] >> \o
    [i \in DOMAIN platforms |-> PlatformLine(platforms[i])]

print_nodes(nodes) ==
    << [line |-> "Nodes:"] >> \o
    [i \in DOMAIN nodes |->
        [line |-> "node", node_id |-> nodes[i].node_id, type |-> nodes[i].type,
         interfaces |-> [j \in DOMAIN nodes[i].node_interface |->
            LET iface == nodes[i].node_interface[j]
            IN  [interface_id |-> iface.interface_id,
                 platform |-> iface.wireless.platform,
                 trx |-> iface.wireless.transceiver_model_id.transceiver_model_id]]]]

print_links(links) ==
    << [line |-> "Links:"] >> \o
    [i \in DOMAIN links |->
        [line |-> "link",
         a |-> <<links[i].a_network_node_id, links[i].a_tx_interface_id>>,
         b |-> <<links[i].b_network_node_id, links[i].b_tx_interface_id>>]]

----------------------------------------------------------------------------
(* The driver main().                                                      *)

Stmt(op, a) == [op |-> op, args |-> a, guarded |-> FALSE]

\* A faulty variant of main: the nodes are created before their platforms.
MainStatementsReordered(a) ==
    (IF ~a.skip_clear THEN << Stmt("clear_scenario", << >>) >> ELSE << >>) \o
    << Stmt("create_node", <<"node-ground", "platform-ground", "if-ground", a.transceiver_id>>),
       Stmt("create_node", <<"node-sat", "platform-sat", "if-sat", a.transceiver_id>>),
       Stmt("create_platform", <<"platform-ground", "GROUND_STATION", <<6372000, 0, 0>>>>),
       Stmt("create_platform", <<"platform-sat", "SATELLITE", <<6871000, 0, 0>>>>),
       Stmt("create_link", <<"node-ground", "if-ground", "node-sat", "if-sat">>),
       Stmt("get_scenario", << >>),
       Stmt("print_snapshot", << >>) >>

\* The statements of main after the client is constructed (lines 172-185).
MainStatements(a) ==
    (IF ~a.skip_clear THEN << Stmt("clear_scenario", << >>) >> ELSE << >>) \o
    << Stmt("create_platform", <<"platform-ground", "GROUND_STATION", <<6372000, 0, 0>>>>),
       Stmt("create_platform", <<"platform-sat", "SATELLITE", <<6871000, 0, 0>>>>),
       Stmt("create_node", <<"node-ground", "platform-ground", "if-ground", a.transceiver_id>>),
       Stmt("create_node", <<"node-sat", "platform-sat", "if-sat", a.transceiver_id>>),
       Stmt("create_link", <<"node-ground", "if-ground", "node-sat", "if-sat">>),
       Stmt("get_scenario", << >>),
       Stmt("print_snapshot", << >>) >>

\* A faulty variant of main: the error is caught and printed, and main returns.
CaughtAndPrinted(rest, error) == [todo |-> << >>, exit |-> Some(0)]

\* A faulty variant of main: on an error the scenario is cleared before exiting.
RolledBack(rest, error) ==
    [todo |-> << Stmt("clear_scenario", << >>) >>, exit |-> Some(1)]

\* An exception nothing in main catches: the rest of main does not run, the
\* interpreter prints the traceback and the process exits with status 1.
Uncaught(rest, error) == [todo |-> << >>, exit |-> Some(1)]

----------------------------------------------------------------------------
(* Inputs.                                                                 *)

\* Most client operations a test scenario invokes.
MaxCalls == 2

Timeouts == {1, 10}

\* A descriptor path that cannot be read, or a bundle holding any subset of
\* the names the client looks up.
Descriptors ==
    {[readable |-> FALSE, names |-> {}]} \cup
    {[readable |-> TRUE, names |-> N] : N \in SUBSET RequiredNames}

FullDescriptor == [readable |-> TRUE, names |-> RequiredNames]

Arguments ==
    [endpoint : {"localhost:50051"},
     transceiver_id : {"trx-ku"},
     descriptor : Descriptors,
     timeout : Timeouts,
     skip_clear : BOOLEAN]

\* A platform another client created with no fixed coordinate.
LegacyPlatform ==
    [name |-> "platform-legacy", type |-> "GROUND_STATION",
     motion_source |-> UnknownSource]

GroundPlatform ==
    [name |-> "platform-ground", type |-> "GROUND_STATION",
     motion_source |-> UnknownSource,
     coordinates |-> [ecef_fixed |-> [point |->
                        [x_m |-> 6372000, y_m |-> 0, z_m |-> 0]]]]

\* Scenarios the service may hold when the driver starts.
ServerInits ==
    {EmptyScenario,
     [EmptyScenario EXCEPT !.platforms = <<LegacyPlatform>>],
     [EmptyScenario EXCEPT !.platforms = <<GroundPlatform>>]}

PlatformNames == {"A", "B"}
PlatformTypes == {"GROUND_STATION"}
Coords == {<<1, 2, 3>>, <<3, 1, 2>>}
NodeIds == {"n1", "n2"}
IfaceIds == {"if1", "if2"}
\* The far ends a test scenario links to.
LinkEnds == {<<"n1", "if1">>, <<"n2", "if2">>}

\* The statements of a test scenario: any operation on small arguments, its
\* error observed by the test instead of ending it.
ScenarioStmts ==
    LET G(op, a) == [op |-> op, args |-> a, guarded |-> TRUE]
    IN  {G("clear_scenario", << >>), G("get_scenario", << >>)} \cup
        {G("create_platform", <<n, t, c>>) :
            n \in PlatformNames, t \in PlatformTypes, c \in Coords} \cup
        {G("create_node", <<n, "A", i, "trx-ku">>) : n \in NodeIds, i \in IfaceIds} \cup
        {G("create_link", <<an, ai, b[1], b[2]>>) :
            an \in NodeIds, ai \in IfaceIds, b \in LinkEnds}

ExistingNode ==
    [node_id |-> "n1", type |-> "ROUTER",
     node_interface |-> << [interface_id |-> "if1",
                            wireless |-> [platform |-> "A",
                                          transceiver_model_id |->
                                            [transceiver_model_id |-> "trx-ku"]]] >>]

\* Scenarios the service may hold when a test scenario starts.
ScenarioInits ==
    {EmptyScenario,
     [EmptyScenario EXCEPT !.nodes = <<ExistingNode>>]}

RpcOps == {"clear_scenario", "create_platform", "create_node", "create_link",
           "get_scenario"}

ConstructStmt == Stmt("DynamicNBI", << >>)

----------------------------------------------------------------------------
(* State machine.                                                          *)

Init ==
    /\ args \in Arguments
    /\ pc = "start"
    /\ client = None
    /\ todo = << >>
    /\ call = None
    /\ sent = << >>
    /\ ncalls = 0
    /\ hist = << >>
    /\ server \in ServerInits
    /\ snapshot = None
    /\ out = << >>
    /\ exit_code = None

\* A test scenario: a constructed client, nothing invoked yet.
InitScenario ==
    /\ args \in [endpoint : {"localhost:50051"}, transceiver_id : {"trx-ku"},
                 descriptor : {FullDescriptor}, timeout : {10},
                 skip_clear : {FALSE}]
    /\ pc = "run"
    /\ client = __init__(args.endpoint, args.descriptor, args.timeout)
    /\ todo = << >>
    /\ call = None
    /\ sent = << >>
    /\ ncalls = 0
    /\ hist = << >>
    /\ server \in ScenarioInits
    /\ snapshot = None
    /\ out = << >>
    /\ exit_code = None

\* A step of the caller ends: its record in the history.
Completed(stmt, outcome, value, before, handled) ==
    [stmt |-> stmt, outcome |-> outcome, value |-> value,
     nsent |-> Len(sent), before |-> before, handled |-> handled]

\* A statement raises: a guarded one is passed over, any other is uncaught.
Raise(stmt, error, before, handled) ==
    LET h == IF stmt.guarded
             THEN [todo |-> Tail(todo), exit |-> exit_code]
             ELSE Uncaught(todo, error)
    IN  /\ todo' = h.todo
        /\ exit_code' = h.exit
        /\ pc' = IF h.todo = << >> /\ h.exit # None THEN "exited" ELSE "run"
        /\ hist' = Append(hist, Completed(stmt, error, None, before, handled))

\* main, lines 169-170: the channel is made (lazily, it cannot fail) and the
\* client constructed.
Construct ==
    /\ pc = "start"
    /\ LET c == __init__(args.endpoint, args.descriptor, args.timeout)
       IN  IF c = None
           THEN /\ Raise(ConstructStmt, InitError(args.descriptor), server, FALSE)
                /\ UNCHANGED client
           ELSE /\ client' = c
                /\ pc' = "run"
                /\ todo' = MainStatements(args)
                /\ UNCHANGED <<hist, exit_code>>
    /\ UNCHANGED <<args, call, sent, ncalls, server, snapshot, out>>

\* A test picks its next operation.
ChooseStmt ==
    /\ pc = "run"
    /\ todo = << >>
    /\ call = None
    /\ ncalls < MaxCalls
    /\ \E s \in ScenarioStmts : todo' = <<s>>
    /\ UNCHANGED <<args, pc, client, call, sent, ncalls, hist, server,
                   snapshot, out, exit_code>>

\* The caller invokes the client operation of its next statement: the
\* request is built and put on the channel, and the caller blocks.
InvokeOp ==
    /\ pc = "run"
    /\ client # None
    /\ call = None
    /\ todo # << >>
    /\ Head(todo).op \in RpcOps
    /\ LET r == Invoke(client[1], Head(todo))
       IN  /\ client' = Some(r.self)
           /\ sent' = sent \o r.sends
           /\ call' = Some([stmt |-> Head(todo), wire |-> r.sends[1],
                            before |-> server, handled |-> FALSE, reply |-> None])
    /\ ncalls' = ncalls + 1
    /\ UNCHANGED <<args, pc, todo, hist, server, snapshot, out, exit_code>>

\* The service handles the request in flight: it rejects what it must, and
\* may reject anything else.
ServerHandle ==
    /\ call # None
    /\ ~call[1].handled
    /\ \E accept \in BOOLEAN :
        /\ accept => ~MustReject(server, call[1].wire)
        /\ server' = IF accept THEN Accepted(server, call[1].wire) ELSE server
        /\ call' = Some([call[1] EXCEPT
                 !.handled = TRUE,
                 !.reply = Some([ok |-> accept,
                                 response |-> IF accept
                                              THEN Response(server', call[1].wire)
                                              ELSE EmptyMessage])])
    /\ UNCHANGED <<args, pc, client, todo, sent, ncalls, hist, snapshot, out,
                   exit_code>>

\* The reply reaches the blocked caller: the operation returns the response
\* or raises the remote status.
Receive ==
    /\ call # None
    /\ call[1].reply # None
    /\ call' = None
    /\ LET c == call[1]
           r == c.reply[1]
       IN  IF r.ok
           THEN /\ todo' = Tail(todo)
                /\ hist' = Append(hist, Completed(c.stmt, "ok", Some(r.response),
                                                  c.before, TRUE))
                /\ snapshot' = IF c.stmt.op = "get_scenario"
                               THEN Some(r.response) ELSE snapshot
                /\ UNCHANGED <<pc, exit_code>>
           ELSE /\ Raise(c.stmt, "RpcStatusError", c.before, TRUE)
                /\ UNCHANGED snapshot
    /\ UNCHANGED <<args, client, sent, ncalls, server, out>>

\* The deadline of the call in flight passes.
Timeout ==
    /\ call # None
    /\ call[1].wire.timeout # None
    /\ call' = None
    /\ Raise(call[1].stmt, "RpcTimeoutError", call[1].before, call[1].handled)
    /\ UNCHANGED <<args, client, sent, ncalls, server, snapshot, out>>

\* The connection fails under the call in flight.
TransportFail ==
    /\ call # None
    /\ call' = None
    /\ Raise(call[1].stmt, "RpcTransportError", call[1].before, call[1].handled)
    /\ UNCHANGED <<args, client, sent, ncalls, server, snapshot, out>>

\* main, lines 182-185.
PrintSnapshot ==
    /\ pc = "run"
    /\ call = None
    /\ todo # << >>
    /\ Head(todo).op = "print_snapshot"
    /\ snapshot # None
    /\ out' = << [line |-> "Scenario snapshot:"] >> \o
              print_platforms(snapshot[1].platforms) \o
              print_nodes(snapshot[1].nodes) \o
              print_links(snapshot[1].links)
    /\ todo' = Tail(todo)
    /\ UNCHANGED <<args, pc, client, call, sent, ncalls, hist, server,
                   snapshot, exit_code>>

\* The caller runs off its last statement: the process exits, with status 0
\* unless an exception set another.
Finish ==
    /\ pc = "run"
    /\ call = None
    /\ todo = << >>
    /\ pc' = "exited"
    /\ exit_code' = IF exit_code = None THEN Some(0) ELSE exit_code
    /\ UNCHANGED <<args, client, todo, call, sent, ncalls, hist, server,
                   snapshot, out>>

Next ==
    \/ Construct
    \/ InvokeOp
    \/ ServerHandle
    \/ Receive
    \/ Timeout
    \/ TransportFail
    \/ PrintSnapshot
    \/ Finish

NextScenario ==
    \/ ChooseStmt
    \/ InvokeOp
    \/ ServerHandle
    \/ Receive
    \/ Timeout
    \/ TransportFail

\* The driver against the service.
Spec == Init /\ [][Next]_vars

\* The driver, with what its execution guarantees: the interpreter runs the
\* next statement, and the deadline of a call in flight passes.  The
\* service and the network promise nothing.
FairSpec ==
    /\ Spec
    /\ WF_vars(Construct \/ InvokeOp \/ PrintSnapshot \/ Finish)
    /\ WF_vars(Timeout)

\* Test scenarios against the service.
ScenarioSpec == InitScenario /\ [][NextScenario]_vars

----------------------------------------------------------------------------
(* Properties.                                                             *)

CreateOps == {"create_platform", "create_node", "create_link"}

Errors == {"OSError", "KeyError", "RpcStatusError", "RpcTimeoutError",
           "RpcTransportError"}

Range(seq) == {seq[i] : i \in DOMAIN seq}

OpsOf(h) == [i \in DOMAIN h |-> h[i].stmt.op]

\* C1: in the driver, a failing step (descriptor read, type lookup, or any
\* RPC failing by transport, timeout or remote status) ends the process
\* with a non-zero exit status and no request is sent after it; the exit
\* status is 0 only if every step succeeded and the snapshot was printed.
C1_FailureExitsNonZero ==
    /\ \A k \in DOMAIN hist :
          hist[k].outcome # "ok" =>
             /\ hist[k].outcome \in Errors
             /\ k = Len(hist)
             /\ pc = "exited"
             /\ exit_code # None
             /\ exit_code[1] # 0
             /\ call = None
             /\ Len(sent) = hist[k].nsent
    /\ exit_code = Some(0) =>
          /\ \A k \in DOMAIN hist : hist[k].outcome = "ok"
          /\ OpsOf(hist) =
                (IF args.skip_clear THEN << >> ELSE <<"clear_scenario">>) \o
                <<"create_platform", "create_platform", "create_node",
                  "create_node", "create_link", "get_scenario">>
          /\ out # << >>
          /\ out[1].line = "Scenario snapshot:"

\* The driver has exited with status 1 at its fourth step, rejected by the
\* service, after three steps that succeeded.
C1_Witness ==
    /\ pc = "exited"
    /\ exit_code = Some(1)
    /\ Len(hist) = 4
    /\ hist[4].outcome = "RpcStatusError"
    /\ hist[3].outcome = "ok"

\* An entity returned by a successful create call is in the scenario.
InScenario(s, op, entity) ==
    CASE op = "create_platform" -> entity \in Range(s.platforms)
      [] op = "create_node" -> entity \in Range(s.nodes)
      [] op = "create_link" -> entity \in Range(s.links)

\* C2: when the driver fails at a create call, the scenario on the server
\* still holds every entity whose create call succeeded before it, and the
\* client sends nothing afterwards (no ClearScenario, no delete).
C2_NoRollback ==
    \A k \in DOMAIN hist :
       (hist[k].outcome # "ok" /\ hist[k].stmt.op \in CreateOps) =>
          /\ Len(sent) = hist[k].nsent
          /\ \A j \in DOMAIN sent :
                j > hist[k].nsent => sent[j].method # ClearScenarioMethod
          /\ \A i \in 1..(k - 1) :
                (hist[i].outcome = "ok" /\ hist[i].stmt.op \in CreateOps) =>
                   InScenario(server, hist[i].stmt.op, hist[i].value[1])

\* The second create_node failed after two platforms and one node were
\* created; they are still on the server.
C2_Witness ==
    /\ pc = "exited"
    /\ Len(hist) >= 4
    /\ hist[Len(hist)].stmt.op = "create_node"
    /\ hist[Len(hist)].stmt.args[1] = "node-sat"
    /\ hist[Len(hist)].outcome # "ok"
    /\ Len(server.nodes) = 1
    /\ Len(server.platforms) >= 2

MethodOf(op) ==
    CASE op = "clear_scenario" -> ClearScenarioMethod
      [] op = "create_platform" -> CreatePlatformMethod
      [] op = "create_node" -> CreateNodeMethod
      [] op = "create_link" -> CreateLinkMethod
      [] op = "get_scenario" -> GetScenarioMethod

\* The operations invoked so far, completed or in flight.
Invocations ==
    [i \in DOMAIN hist |-> hist[i].stmt] \o
    (IF call # None THEN <<call[1].stmt>> ELSE << >>)

\* C3: every invocation of a client operation puts exactly one request on
\* the channel, whatever its outcome: the i-th request is that of the i-th
\* invocation, a failed call is not re-sent and no call is duplicated.
C3_OneRequestPerCall ==
    /\ Len(sent) = ncalls
    /\ Len(sent) = Len(Invocations)
    /\ \A i \in DOMAIN sent : sent[i].method = MethodOf(Invocations[i].op)

\* A call timed out, the next one succeeded; two requests were sent.
C3_Witness ==
    /\ Len(hist) = 2
    /\ hist[1].outcome = "RpcTimeoutError"
    /\ hist[2].outcome = "ok"
    /\ call = None
    /\ Len(sent) = 2

\* C4: every remote call completes (with the response, or with an error
\* once its deadline passes), so the driver terminates even when the
\* service never answers.
C4_CallsComplete ==
    /\ (call # None) ~> (call = None)
    /\ <>(pc = "exited")

\* The driver has exited on a timeout of a call the service never handled.
C4_Witness ==
    /\ pc = "exited"
    /\ hist # << >>
    /\ hist[Len(hist)].outcome = "RpcTimeoutError"
    /\ ~hist[Len(hist)].handled
    /\ hist[Len(hist)].nsent >= 2

\* What a request creates or asks for.
Key(w) ==
    CASE w.method = CreatePlatformMethod -> <<w.request.name>>
      [] w.method = CreateNodeMethod -> <<w.request.node_id>>
      [] w.method = CreateLinkMethod ->
            <<w.request.a_network_node_id, w.request.a_tx_interface_id,
              w.request.b_network_node_id, w.request.b_tx_interface_id>>
      [] OTHER -> << >>

\* C5: a successful driver run sends ClearScenario (first, and only without
\* --skip-clear), CreatePlatform(platform-ground), CreatePlatform(platform-
\* sat), CreateNode(node-ground), CreateNode(node-sat), CreateLink,
\* GetScenario, in this order, each after the previous call returned; so a
\* platform is created before the node on it, and both nodes with their
\* interfaces before the link between them.
C5_CallOrder ==
    /\ args.skip_clear => \A i \in DOMAIN sent : sent[i].method # ClearScenarioMethod
    /\ (~args.skip_clear /\ sent # << >>) => sent[1].method = ClearScenarioMethod
    /\ \A i \in DOMAIN hist : hist[i].stmt.op \in RpcOps => hist[i].nsent = i
    /\ (pc = "exited" /\ exit_code = Some(0)) =>
          /\ [i \in DOMAIN sent |-> <<sent[i].method, Key(sent[i])>>] =
                (IF args.skip_clear THEN << >>
                 ELSE << <<ClearScenarioMethod, << >> >> >>) \o
                << <<CreatePlatformMethod, <<"platform-ground">> >>,
                   <<CreatePlatformMethod, <<"platform-sat">> >>,
                   <<CreateNodeMethod, <<"node-ground">> >>,
                   <<CreateNodeMethod, <<"node-sat">> >>,
                   <<CreateLinkMethod,
                     <<"node-ground", "if-ground", "node-sat", "if-sat">> >>,
                   <<GetScenarioMethod, << >> >> >>
          /\ \A i \in DOMAIN sent :
                sent[i].method = CreateNodeMethod =>
                   \E j \in 1..(i - 1) :
                      /\ sent[j].method = CreatePlatformMethod
                      /\ sent[j].request.name =
                            sent[i].request.node_interface[1].wireless.platform
          /\ \A i \in DOMAIN sent :
                sent[i].method = CreateLinkMethod =>
                   Endpoints(sent[i].request) \subseteq
                      Interfaces([j \in 1..(i - 1) |->
                                    IF sent[j].method = CreateNodeMethod
                                    THEN sent[j].request
                                    ELSE [node_id |-> "", node_interface |-> << >>]])

\* A run with --skip-clear has exited with status 0 after six requests.
C5_Witness ==
    /\ pc = "exited"
    /\ exit_code = Some(0)
    /\ args.skip_clear
    /\ Len(sent) = 6

\* Whether an end of the link a create_link statement asks for does not
\* exist in scenario s.
MissingEnd(stmt, s) ==
    ~({<<stmt.args[1], stmt.args[2]>>, <<stmt.args[3], stmt.args[4]>>}
        \subseteq Interfaces(s.nodes))

\* C6: create_link for a node/interface pair that does not exist fails: the
\* service answers with a status error and leaves the scenario as it was,
\* the call does not return normally, and a snapshot fetched next is the
\* scenario before the call, without that link.
C6_DanglingLinkRejected ==
    /\ (/\ call # None
        /\ call[1].stmt.op = "create_link"
        /\ MissingEnd(call[1].stmt, call[1].before)
        /\ call[1].reply # None) =>
           (~call[1].reply[1].ok /\ server = call[1].before)
    /\ \A i \in DOMAIN hist :
          (hist[i].stmt.op = "create_link" /\ MissingEnd(hist[i].stmt, hist[i].before)) =>
             /\ hist[i].outcome # "ok"
             /\ hist[i].outcome \in {"RpcStatusError", "RpcTimeoutError",
                                     "RpcTransportError"}
             /\ (/\ i < Len(hist)
                 /\ hist[i + 1].stmt.op = "get_scenario"
                 /\ hist[i + 1].outcome = "ok") =>
                    /\ LinkRequest(hist[i].stmt.args[1], hist[i].stmt.args[2],
                                   hist[i].stmt.args[3], hist[i].stmt.args[4])
                          \notin Range(hist[i + 1].value[1].links)
                    /\ hist[i + 1].value[1].links = hist[i].before.links
                    /\ hist[i + 1].value[1].nodes = hist[i].before.nodes
                    /\ hist[i + 1].value[1].platforms = hist[i].before.platforms

\* A link from the missing pair (n2, if2) to the existing (n1, if1) was
\* rejected with a status error, and a snapshot was fetched next.
C6_Witness ==
    /\ Len(hist) = 2
    /\ hist[1].stmt.op = "create_link"
    /\ hist[1].stmt.args = <<"n2", "if2", "n1", "if1">>
    /\ Len(hist[1].before.nodes) = 1
    /\ hist[1].outcome = "RpcStatusError"
    /\ hist[2].stmt.op = "get_scenario"
    /\ hist[2].outcome = "ok"

\* C7: the CreatePlatform request carries the name, the type, the motion
\* source UNKNOWN_SOURCE and x, y, z equal to coords[0], coords[1],
\* coords[2]; and after create_platform succeeds on a scenario with no
\* platform, the snapshot fetched next lists exactly that platform, with
\* that name and that coordinate.
C7_PlatformRoundTrip ==
    /\ (call # None /\ call[1].stmt.op = "create_platform") =>
          LET a == call[1].stmt.args
          IN  call[1].wire.request =
                 [name |-> a[1], type |-> a[2], motion_source |-> "UNKNOWN_SOURCE",
                  coordinates |-> [ecef_fixed |-> [point |->
                     [x_m |-> a[3][1], y_m |-> a[3][2], z_m |-> a[3][3]]]]]
    /\ \A i \in DOMAIN hist :
          (/\ i < Len(hist)
           /\ hist[i].stmt.op = "create_platform"
           /\ hist[i].outcome = "ok"
           /\ hist[i].before.platforms = << >>
           /\ hist[i + 1].stmt.op = "get_scenario"
           /\ hist[i + 1].outcome = "ok") =>
              LET a == hist[i].stmt.args
                  ps == hist[i + 1].value[1].platforms
              IN  /\ Len(ps) = 1
                  /\ ps[1].name = a[1]
                  /\ ps[1].type = a[2]
                  /\ ps[1].coordinates.ecef_fixed.point =
                        [x_m |-> a[3][1], y_m |-> a[3][2], z_m |-> a[3][3]]

\* Platform "A" was created at (1, 2, 3) on a scenario without platforms and
\* a snapshot was fetched next.
C7_Witness ==
    /\ Len(hist) = 2
    /\ hist[1].stmt.op = "create_platform"
    /\ hist[1].stmt.args[1] = "A"
    /\ hist[1].stmt.args[3] = <<1, 2, 3>>
    /\ hist[1].outcome = "ok"
    /\ hist[1].before.platforms = << >>
    /\ hist[2].stmt.op = "get_scenario"
    /\ hist[2].outcome = "ok"

\* Whether the fixed earth-centred coordinate of a platform is set.
HasCoordinate(p) ==
    /\ HasField(p, "coordinates")
    /\ HasField(p.coordinates, "ecef_fixed")
    /\ HasField(p.coordinates.ecef_fixed, "point")

\* C8: the printer prints "n/a" for every platform of the snapshot whose
\* coordinate is not set, and the formatted triple only for the platforms
\* whose coordinate is set.
C8_PlaceholderForMissing ==
    out # << >> =>
       \A i \in DOMAIN snapshot[1].platforms :
          LET p == snapshot[1].platforms[i]
              l == out[i + 2]
          IN  /\ l.line = "platform"
              /\ l.name = p.name
              /\ ~HasCoordinate(p) => l.coord.text = "n/a"
              /\ l.coord.text # "n/a" => HasCoordinate(p)

\* C9: when the descriptor bundle lacks a message or enum name the client
\* needs, construction fails with a lookup error: there is no client, no
\* request is ever sent, and the process exits with status 1.
C9_MissingTypeAbortsStartup ==
    (args.descriptor.readable /\ ~(RequiredNames \subseteq args.descriptor.names)) =>
       /\ client = None
       /\ call = None
       /\ sent = << >>
       /\ pc # "start" =>
             /\ pc = "exited"
             /\ exit_code = Some(1)
             /\ Len(hist) = 1
             /\ hist[1].outcome = "KeyError"

\* The bundle lacks only ScenarioSnapshot, the last name looked up, and the
\* driver has exited.
C9_Witness ==
    /\ pc = "exited"
    /\ args.descriptor.readable
    /\ args.descriptor.names = RequiredNames \ {MessageNames[8]}
    /\ hist[1].outcome = "KeyError"

\* C10: no operation, successful or failing, changes the client (channel,
\* timeout, registry, prototypes, enum value), and the request a call sends
\* is the one a newly constructed client builds from the same arguments.
C10_ClientImmutable ==
    /\ [](call # None =>
            call[1].wire =
               Invoke(__init__(args.endpoint, args.descriptor, args.timeout)[1],
                      call[1].stmt).sends[1])
    /\ [][client' = client]_vars

\* One operation has failed and a create_platform call is in flight, on
\* the client as constructed.
C10_Witness ==
    /\ Len(hist) = 1
    /\ hist[1].outcome = "RpcStatusError"
    /\ call # None
    /\ call[1].stmt.op = "create_platform"
    /\ client = __init__(args.endpoint, args.descriptor, args.timeout)

====
